---- MODULE Spec2Model ----
(***************************************************************************)
(* Color-consistency analysis engine (src/api/v1/analysis_core.py).        *)
(*                                                                         *)
(* Python values are tagged tuples: <<"none">>, <<"int", n>>,              *)
(* <<"str", chars>> (chars a sequence of one-character strings) and        *)
(* <<"dict", f>> (f a function from key names to Python values).           *)
(* Python floats are fixed-point integers: linear RGB, XYZ and u', v' in   *)
(* units of 1/10000, CIELUV coordinates, distances and scores in units of  *)
(* 1/100.                                                                  *)
(***************************************************************************)
EXTENDS Integers, Sequences, FiniteSets, TLC

VARIABLES trials, params, groups, result, pc, db, response

vars == <<trials, params, groups, result, pc, db, response>>

\* ------------------------------------------------------------------ bounds
MaxTrials == 4
MaxKeyedTrials == 2
MaxOrderedTrials == 5
MaxTimedTrials == 4
MaxBatchedTrials == 9

\* ---------------------------------------------------------- Python values
None == <<"none">>
PyInt(n) == <<"int", n>>
PyStr(cs) == <<"str", cs>>
PyDict(f) == <<"dict", f>>

IsNone(v) == v[1] = "none"
IsInt(v) == v[1] = "int"
IsStr(v) == v[1] = "str"
IsDict(v) == v[1] = "dict"

EmptyDict == PyDict(<<>>)

\* bool(v): None, 0, "" and {} are falsy, everything else is truthy
Truthy(v) ==
    CASE IsNone(v) -> FALSE
      [] IsInt(v) -> v[2] # 0
      [] IsStr(v) -> Len(v[2]) > 0
      [] IsDict(v) -> DOMAIN v[2] # {}

\* a or b
PyOr(a, b) == IF Truthy(a) THEN a ELSE b

\* d.get(k) on a dict value
DictGet(d, k) == IF k \in DOMAIN d[2] THEN d[2][k] ELSE None

DigitChars == <<"0", "1", "2", "3", "4", "5", "6", "7", "8", "9">>

RECURSIVE NatToChars(_)
NatToChars(n) ==
    IF n < 10 THEN <<DigitChars[n + 1]>>
    ELSE NatToChars(n \div 10) \o <<DigitChars[(n % 10) + 1]>>

\* str(v) as a sequence of characters (dict values are not rendered: the
\* code renders only trigger keys and hex candidates, see ToStr's callers)
ToStr(v) ==
    CASE IsStr(v) -> v[2]
      [] IsInt(v) -> IF v[2] < 0 THEN <<"-">> \o NatToChars(-v[2]) ELSE NatToChars(v[2])
      [] IsNone(v) -> <<"N", "o", "n", "e">>
      [] IsDict(v) -> <<"{", "}">>

\* --------------------------------------------------------- fixed point
FP == 10 ^ 4

\* a * b on 1/10000 fixed-point numbers
FMul(a, b) == (a * b) \div FP

RECURSIVE RootSearch(_, _, _, _)
\* largest r in lo..hi with Pw(r) <= y, for a non-decreasing Pw with Pw(lo) <= y
RootSearch(Pw(_), y, lo, hi) ==
    IF lo >= hi THEN lo
    ELSE LET mid == (lo + hi + 1) \div 2
         IN IF Pw(mid) <= y THEN RootSearch(Pw, y, mid, hi)
            ELSE RootSearch(Pw, y, lo, mid - 1)

Pow5(r) == FMul(FMul(FMul(FMul(r, r), r), r), r)
Pow3(r) == FMul(FMul(r, r), r)
Sq(r) == r * r

\* pow(x, 2.4) for x in [0, 1]: x^2 * (x^2)^(1/5)
Pow24(x) == LET x2 == FMul(x, x) IN FMul(x2, RootSearch(Pow5, x2, 0, FP))

\* pow(x, 1/3) for x in [0, 1.0001]
Cbrt(x) == RootSearch(Pow3, x, 0, FP + 1)

\* sqrt(n) of an integer n in 0..2^31-1, rounded down
ISqrt(n) == RootSearch(Sq, n, 0, IF n < 46340 THEN n ELSE 46340)

\* ------------------------------------------------------ color conversions
srgb_channel_to_linear(c) ==
    IF c * 10 <= 4045 THEN (c * 100) \div 1292
    ELSE Pow24(((c + 550) * FP) \div 10550)

rgb255_to_linear(rgb) ==
    << srgb_channel_to_linear((rgb[1] * FP) \div 255),
       srgb_channel_to_linear((rgb[2] * FP) \div 255),
       srgb_channel_to_linear((rgb[3] * FP) \div 255) >>

linear_rgb_to_xyz(r_lin, g_lin, b_lin) ==
    << (4125 * r_lin + 3576 * g_lin + 1804 * b_lin) \div FP,
       (2127 * r_lin + 7152 * g_lin + 722 * b_lin) \div FP,
       (193 * r_lin + 1192 * g_lin + 9503 * b_lin) \div FP >>

\* _D65, line 40
D65 == <<9505, 10000, 10888>>

\* u' without the test of line 47: a zero denominator is taken as one
UPrimeUnguarded(X, denom) == (4 * X * FP) \div (IF denom = 0 THEN FP ELSE denom)

\* u' of lines 46-50 and 53-57: 0 when the denominator is zero
UPrime(X, denom) == IF denom = 0 THEN 0 ELSE (4 * X * FP) \div denom

\* v' of lines 46-51 and 53-58
VPrime(Y, denom) == IF denom = 0 THEN 0 ELSE (9 * Y * FP) \div denom

\* L* of lines 62-65, on yr of line 60
LStar(yr) ==
    IF yr > 88 THEN (116 * Cbrt(yr)) \div 100 - 1600
    ELSE (9033 * yr) \div 1000

\* lines 67-69
LuvOf(L_star, du, dv) ==
    <<L_star, (13 * L_star * du) \div FP, (13 * L_star * dv) \div FP>>

xyz_to_luv(X, Y, Z) ==
    LuvOf(LStar(IF D65[2] # 0 THEN (Y * FP) \div D65[2] ELSE 0),
          UPrime(X, X + 15 * Y + 3 * Z)
            - UPrime(D65[1], D65[1] + 15 * D65[2] + 3 * D65[3]),
          VPrime(Y, X + 15 * Y + 3 * Z)
            - VPrime(D65[2], D65[1] + 15 * D65[2] + 3 * D65[3]))

\* lines 75-76 on the triples of lines 74 and 75
XyzOfLinear(lin) == linear_rgb_to_xyz(lin[1], lin[2], lin[3])
LuvOfXyz(xyz) == xyz_to_luv(xyz[1], xyz[2], xyz[3])

rgb255_to_luv(rgb) == LuvOfXyz(XyzOfLinear(rgb255_to_linear(rgb)))

\* ------------------------------------------------------------ hex parsing
HexLower == <<"0", "1", "2", "3", "4", "5", "6", "7", "8", "9", "a", "b", "c", "d", "e", "f">>
HexUpper == <<"0", "1", "2", "3", "4", "5", "6", "7", "8", "9", "A", "B", "C", "D", "E", "F">>

IsHexDigit(c) ==
    \E i \in 1..16 : HexLower[i] = c \/ HexUpper[i] = c

HexDigitValue(c) ==
    (CHOOSE i \in 1..16 : HexLower[i] = c \/ HexUpper[i] = c) - 1

IsSpace(c) == c = " "

\* the outcome of an operation that may raise
Err == <<"err">>
Ok(n) == <<"ok", n>>

\* int(ab, 16) for the two characters a, b: two hex digits, a sign and a
\* digit, or a digit with white space before or after; ValueError otherwise
IntBase16(a, b) ==
    CASE IsHexDigit(a) /\ IsHexDigit(b) -> Ok(16 * HexDigitValue(a) + HexDigitValue(b))
      [] a = "+" /\ IsHexDigit(b) -> Ok(HexDigitValue(b))
      [] a = "-" /\ IsHexDigit(b) -> Ok(-HexDigitValue(b))
      [] IsSpace(a) /\ IsHexDigit(b) -> Ok(HexDigitValue(b))
      [] IsHexDigit(a) /\ IsSpace(b) -> Ok(HexDigitValue(a))
      [] OTHER -> Err

RECURSIVE LStrip(_, _)
\* cs.lstrip(ch)
LStrip(cs, ch) ==
    IF Len(cs) > 0 /\ Head(cs) = ch THEN LStrip(Tail(cs), ch) ELSE cs

\* lines 84-85: "".join([c * 2 for c in s]) when len(s) == 3
ExpandShort(s) ==
    IF Len(s) = 3 THEN <<s[1], s[1], s[2], s[2], s[3], s[3]>> ELSE s

\* lines 88-91: the triple, or None when an int() raised
ChannelsOrNone(r, g, b) ==
    IF r = Err \/ g = Err \/ b = Err THEN None ELSE <<r[2], g[2], b[2]>>

\* lines 86-91
ParseSix(s) ==
    IF Len(s) # 6 THEN None
    ELSE ChannelsOrNone(IntBase16(s[1], s[2]), IntBase16(s[3], s[4]), IntBase16(s[5], s[6]))

hex_to_rgb(hexstr) ==
    IF ~Truthy(hexstr) THEN None
    ELSE ParseSix(ExpandShort(LStrip(ToStr(hexstr), "#")))

\* ------------------------------------------------------- color extraction
IsDigitChar(c) == \E i \in 1..10 : DigitChars[i] = c

RECURSIVE DigitsValue(_)
DigitsValue(cs) ==
    IF Len(cs) = 0 THEN 0
    ELSE 10 * DigitsValue(SubSeq(cs, 1, Len(cs) - 1))
         + (CHOOSE i \in 1..10 : DigitChars[i] = cs[Len(cs)]) - 1

\* int(s) of a string whose sign has been split off
SignedDigits(negative, body) ==
    IF Len(body) > 0 /\ \A i \in 1..Len(body) : IsDigitChar(body[i])
    THEN Ok(IF negative THEN -DigitsValue(body) ELSE DigitsValue(body))
    ELSE Err

\* int(v): an int is itself, a string of decimal digits (with an optional
\* sign) is parsed, anything else raises
IntOf(v) ==
    CASE IsInt(v) -> Ok(v[2])
      [] IsStr(v) /\ Len(v[2]) > 0 /\ v[2][1] \in {"+", "-"} ->
           SignedDigits(v[2][1] = "-", Tail(v[2]))
      [] IsStr(v) -> SignedDigits(FALSE, v[2])
      [] OTHER -> Err

\* sc.get(a) if sc.get(a) is not None else sc.get(b) if sc.get(b) is not None
\* else sc.get(c)
FirstNotNone(sc, a, b, c) ==
    IF ~IsNone(DictGet(sc, a)) THEN DictGet(sc, a)
    ELSE IF ~IsNone(DictGet(sc, b)) THEN DictGet(sc, b)
    ELSE DictGet(sc, c)

\* t.meta_json or {}
MetaOf(t) == PyOr(t.meta_json, EmptyDict)

\* lines 108-113
HexCandidate(meta) ==
    PyOr(DictGet(meta, "selected_hex"),
    PyOr(DictGet(meta, "color_hex"),
    PyOr(DictGet(meta, "hex"), DictGet(meta, "selectedColorHex"))))

\* lines 114-117: None stands for falling through to the color objects
FromHex(hexc) == IF Truthy(hexc) THEN hex_to_rgb(hexc) ELSE None

\* line 120
ColorObject(meta) ==
    PyOr(DictGet(meta, "selected_color"),
    PyOr(DictGet(meta, "selectedColor"), DictGet(meta, "color")))

\* lines 144-147
ObjectChannels(r, g, b) ==
    IF IsNone(r) \/ IsNone(g) \/ IsNone(b) THEN None
    ELSE ChannelsOrNone(IntOf(r), IntOf(g), IntOf(b))

\* lines 121-147
FromObject(sc) ==
    IF IsDict(sc)
    THEN ObjectChannels(FirstNotNone(sc, "r", "R", "red"),
                        FirstNotNone(sc, "g", "G", "green"),
                        FirstNotNone(sc, "b", "B", "blue"))
    ELSE None

\* the first strategy that yields a color
FirstColor(a, b) == IF a # None THEN a ELSE b

\* lines 106-149; meta.get raises AttributeError when meta is not a dict
FromMeta(meta) ==
    IF ~IsDict(meta) THEN Err
    ELSE FirstColor(FromHex(HexCandidate(meta)), FromObject(ColorObject(meta)))

\* line 104: the triple, or Err when an int() raised (it is not in a try)
DirectChannels(r, g, b) ==
    IF r = Err \/ g = Err \/ b = Err THEN Err ELSE <<r[2], g[2], b[2]>>

\* line 103
HasDirectChannels(t) ==
    ~IsNone(t.selected_r) /\ ~IsNone(t.selected_g) /\ ~IsNone(t.selected_b)

\* the triple, None, or Err when the call raises
trial_rgb_or_none(t) ==
    IF HasDirectChannels(t)
    THEN DirectChannels(IntOf(t.selected_r), IntOf(t.selected_g), IntOf(t.selected_b))
    ELSE FromMeta(MetaOf(t))

\* ------------------------------------------------------ consistency metric
\* the distance with the third coordinate of b forgotten
LuvDistanceLopsided(a, b) ==
    ISqrt((a[1] - b[1]) ^ 2 + (a[2] - b[2]) ^ 2 + a[3] ^ 2)

luv_distance(a, b) ==
    ISqrt((a[1] - b[1]) ^ 2 + (a[2] - b[2]) ^ 2 + (a[3] - b[3]) ^ 2)

\* line 167
MetricOf(d12, d23, d31) ==
    <<(d12 + d23 + d31) \div 3, [d12 |-> d12, d23 |-> d23, d31 |-> d31]>>

\* <<mean_d, pairwise>>, or the ValueError raised for other than three points
mean_pairwise_distance(triples) ==
    IF Len(triples) # 3 THEN Err
    ELSE MetricOf(luv_distance(triples[1], triples[2]),
                  luv_distance(triples[2], triples[3]),
                  luv_distance(triples[3], triples[1]))

\* ---------------------------------------------------------- statistics
RECURSIVE SumSeq(_)
SumSeq(xs) == IF Len(xs) = 0 THEN 0 ELSE Head(xs) + SumSeq(Tail(xs))

RECURSIVE InsertSorted(_, _)
\* x placed after every element that is <= x
InsertSorted(xs, x) ==
    IF Len(xs) = 0 THEN <<x>>
    ELSE IF Head(xs) <= x THEN <<Head(xs)>> \o InsertSorted(Tail(xs), x)
    ELSE <<x>> \o xs

RECURSIVE SortedNums(_)
SortedNums(xs) ==
    IF Len(xs) = 0 THEN <<>>
    ELSE InsertSorted(SortedNums(SubSeq(xs, 1, Len(xs) - 1)), xs[Len(xs)])

\* statistics.mean
mean(xs) == SumSeq(xs) \div Len(xs)

\* the middle of a sorted list
Middle(srt) ==
    IF Len(srt) % 2 = 1 THEN srt[(Len(srt) + 1) \div 2]
    ELSE (srt[Len(srt) \div 2] + srt[Len(srt) \div 2 + 1]) \div 2

\* statistics.median
median(xs) == Middle(SortedNums(xs))

\* the root of the mean squared deviation from m
Deviation(xs, m) ==
    ISqrt(SumSeq([i \in 1..Len(xs) |-> (xs[i] - m) ^ 2]) \div Len(xs))

\* statistics.pstdev
pstdev(xs) == Deviation(xs, mean(xs))

\* -------------------------------------------------------- trigger grouping
UnknownKey == PyStr(<<"_", "_", "u", "n", "k", "n", "o", "w", "n", "_", "_">>)

\* the key by presence of the fields: "trigger" in meta, "stimulus" in meta
MetaKeyPresent(meta) ==
    IF "trigger" \in DOMAIN meta[2] THEN meta[2]["trigger"]
    ELSE IF "stimulus" \in DOMAIN meta[2] THEN meta[2]["stimulus"]
    ELSE UnknownKey

\* meta.get("trigger") or meta.get("stimulus") or "__unknown__"
MetaKey(meta) ==
    PyOr(DictGet(meta, "trigger"), PyOr(DictGet(meta, "stimulus"), UnknownKey))

\* the key of lines 201-207
TriggerKey(t) ==
    IF ~IsNone(t.stimulus_id) THEN t.stimulus_id ELSE MetaKey(MetaOf(t))

\* groups[key] on first use of key: the key joins the dict's keys
WithKey(keys, key) ==
    IF \E i \in 1..Len(keys) : keys[i] = key THEN keys ELSE Append(keys, key)

\* d[k] = v on a dict held as a function
DictSet(d, k, v) == [x \in (DOMAIN d) \cup {k} |-> IF x = k THEN v ELSE d[x]]

\* groups = defaultdict(list), line 199: the keys in insertion order and the
\* list of each key
NoGroups == [keys |-> <<>>, members |-> <<>>]

\* groups[key] = [t] in place of groups[key].append(t)
GroupAppendReplacing(grps, key, t) ==
    [keys |-> WithKey(grps.keys, key),
     members |-> DictSet(grps.members, key, <<t>>)]

\* groups[key].append(t), line 208
GroupAppend(grps, key, t) ==
    [keys |-> WithKey(grps.keys, key),
     members |-> DictSet(grps.members, key,
                         IF key \in DOMAIN grps.members
                         THEN Append(grps.members[key], t) ELSE <<t>>)]

RECURSIVE GroupsOf(_)
\* the groups dict after the loop of lines 200-208
GroupsOf(ts) ==
    IF Len(ts) = 0 THEN NoGroups
    ELSE GroupAppend(GroupsOf(SubSeq(ts, 1, Len(ts) - 1)),
                     TriggerKey(ts[Len(ts)]), ts[Len(ts)])

\* x.trial_index or 0
SortKey(t) == IF Truthy(t.trial_index) THEN t.trial_index[2] ELSE 0

RECURSIVE InsertByIndex(_, _)
InsertByIndex(ts, t) ==
    IF Len(ts) = 0 THEN <<t>>
    ELSE IF SortKey(Head(ts)) <= SortKey(t) THEN <<Head(ts)>> \o InsertByIndex(Tail(ts), t)
    ELSE <<t>> \o ts

RECURSIVE SortedByIndex(_)
\* sorted(trs, key=lambda x: x.trial_index or 0), a stable sort
SortedByIndex(ts) ==
    IF Len(ts) = 0 THEN <<>>
    ELSE InsertByIndex(SortedByIndex(SubSeq(ts, 1, Len(ts) - 1)), ts[Len(ts)])

\* xs[:4], a slice one trial too long
FirstFour(xs) == SubSeq(xs, 1, IF Len(xs) < 4 THEN Len(xs) ELSE 4)

\* xs[:3]
FirstThree(xs) == SubSeq(xs, 1, IF Len(xs) < 3 THEN Len(xs) ELSE 3)

\* line 222
Considered(trs) == FirstThree(SortedByIndex(trs))

\* ------------------------------------------------------------ analysis core
RECURSIVE HexChars(_)
\* the hexadecimal digits of n >= 0, lower case
HexChars(n) ==
    IF n < 16 THEN <<HexLower[n + 1]>>
    ELSE HexChars(n \div 16) \o <<HexLower[(n % 16) + 1]>>

\* a field padded with zeros to two characters
Pad2(body) == IF Len(body) < 2 THEN <<"0">> \o body ELSE body

\* f"{n:02x}"
Format02x(n) == Pad2(IF n < 0 THEN <<"-">> \o HexChars(-n) ELSE HexChars(n))

\* int(round(total / 3.0)): thirds are never halfway, so this is the nearest integer
RoundThird(total) == (2 * total + 3) \div 6

RECURSIVE Comprehension(_, _, _)
\* [f(x) for x in xs if keep(x)]
Comprehension(f(_), keep(_), xs) ==
    IF Len(xs) = 0 THEN <<>>
    ELSE (IF keep(Head(xs)) THEN <<f(Head(xs))>> ELSE <<>>)
         \o Comprehension(f, keep, Tail(xs))

TrialId(t) == t.id
LacksColor(t) == trial_rgb_or_none(t) = None
HasLatency(t) == ~IsNone(t.response_ms)
Latency(t) == t.response_ms[2]
Always(t) == TRUE

\* line 218
IncompleteEntry(trs) == [status |-> "incomplete", n_trials |-> Len(trs)]

\* lines 228-232
NoColorEntry(trs_sorted, missing_rgb_trials) ==
    [status |-> "no_color_present",
     n_trials |-> Len(trs_sorted),
     missing_trial_ids |-> missing_rgb_trials]

\* lines 258-263
Representative(rep_r, rep_g, rep_b) ==
    [representative_rgb |-> <<rep_r, rep_g, rep_b>>,
     representative_hex |-> <<"#">> \o Format02x(rep_r) \o Format02x(rep_g) \o Format02x(rep_b)]

\* mean_r, mean_g or mean_b of lines 237-247
ChannelSum(rgbs, c) == SumSeq([i \in 1..Len(rgbs) |-> rgbs[i][c]])

\* lines 250-263
OkEntry(metric, rep) ==
    [status |-> "ok",
     n_trials |-> 3,
     mean_d |-> metric[1],
     pairwise |-> metric[2],
     representative_rgb |-> rep.representative_rgb,
     representative_hex |-> rep.representative_hex]

\* the state of the loop of lines 210-266
LoopStart ==
    [per_trigger |-> <<>>, none_counts |-> 0, rt_list |-> <<>>,
     valid_trigger_scores |-> <<>>, raised |-> FALSE,
     error |-> [exception |-> "", raised_by |-> ""]]

\* lines 249-266, on the outcome of mean_pairwise_distance
Scored(acc, key, metric, rep) ==
    IF metric = Err
    THEN [acc EXCEPT !.raised = TRUE,
                     !.error = [exception |-> "ValueError",
                                raised_by |-> "mean_pairwise_distance"]]
    ELSE [acc EXCEPT !.per_trigger = DictSet(@, ToStr(key), OkEntry(metric, rep)),
                     !.valid_trigger_scores = Append(@, metric[1])]

\* lines 236-266, on the colors of the three considered trials
Colored(acc, key, trs_sorted, rgbs) ==
    Scored([acc EXCEPT !.rt_list = @ \o Comprehension(Latency, HasLatency, trs_sorted)],
           key,
           mean_pairwise_distance(Comprehension(rgb255_to_luv, Always, rgbs)),
           Representative(RoundThird(ChannelSum(rgbs, 1)),
                          RoundThird(ChannelSum(rgbs, 2)),
                          RoundThird(ChannelSum(rgbs, 3))))

\* lines 225-266 without the none_counts += 1 of line 227
CheckedWithoutCount(acc, key, trs_sorted, missing_rgb_trials) ==
    IF Len(missing_rgb_trials) > 0
    THEN [acc EXCEPT !.per_trigger = DictSet(@, ToStr(key),
                                             NoColorEntry(trs_sorted, missing_rgb_trials))]
    ELSE Colored(acc, key, trs_sorted, Comprehension(trial_rgb_or_none, Always, trs_sorted))

\* lines 225-266, on the ids of the considered trials that lack a color
Checked(acc, key, trs_sorted, missing_rgb_trials) ==
    IF Len(missing_rgb_trials) > 0
    THEN [acc EXCEPT !.none_counts = @ + 1,
                     !.per_trigger = DictSet(@, ToStr(key),
                                             NoColorEntry(trs_sorted, missing_rgb_trials))]
    ELSE Colored(acc, key, trs_sorted, Comprehension(trial_rgb_or_none, Always, trs_sorted))

\* trial_rgb_or_none(t) raises
Raises(t) == trial_rgb_or_none(t) = Err

\* what the call raised: ValueError from int() on a direct channel,
\* AttributeError from meta.get on metadata that is not a dict
ExtractionError(t) ==
    [exception |-> IF HasDirectChannels(t) THEN "ValueError" ELSE "AttributeError",
     raised_by |-> "trial_rgb_or_none"]

\* the first of the considered trials whose extraction raises
FirstRaising(trs_sorted) ==
    trs_sorted[CHOOSE i \in 1..Len(trs_sorted) :
                 /\ Raises(trs_sorted[i])
                 /\ \A j \in 1..(i - 1) : ~Raises(trs_sorted[j])]

\* lines 221-266, on the considered trials of a group of three or more; an
\* exception of line 225 leaves the function
Complete(acc, key, trs_sorted) ==
    IF \E i \in 1..Len(trs_sorted) : Raises(trs_sorted[i])
    THEN [acc EXCEPT !.raised = TRUE, !.error = ExtractionError(FirstRaising(trs_sorted))]
    ELSE Checked(acc, key, trs_sorted, Comprehension(TrialId, LacksColor, trs_sorted))

\* one iteration of the loop with a group of fewer than three trials counted
\* among the groups without a color
ProcessGroupCountingIncomplete(acc, key, trs) ==
    IF acc.raised THEN acc
    ELSE IF Len(trs) < 3
    THEN [acc EXCEPT !.none_counts = @ + 1,
                     !.per_trigger = DictSet(@, ToStr(key), IncompleteEntry(trs))]
    ELSE Complete(acc, key, Considered(trs))

\* one iteration of the loop of lines 215-266, for the group `key` with members trs
ProcessGroup(acc, key, trs) ==
    IF acc.raised THEN acc
    ELSE IF Len(trs) < 3
    THEN [acc EXCEPT !.per_trigger = DictSet(@, ToStr(key), IncompleteEntry(trs))]
    ELSE Complete(acc, key, Considered(trs))

RECURSIVE GroupLoop(_, _, _)
\* for key, trs in groups.items(): ..., from the keys still to visit
GroupLoop(acc, keys, grps) ==
    IF Len(keys) = 0 THEN acc
    ELSE GroupLoop(ProcessGroup(acc, Head(keys), grps.members[Head(keys)]), Tail(keys), grps)

Max(a, b) == IF a >= b THEN a ELSE b

\* lines 270-274
InsufficientSummary(acc) ==
    [status |-> "insufficient_data",
     n_valid_triggers |-> Len(acc.valid_trigger_scores),
     n_no_color_triggers |-> acc.none_counts]

\* the diagnosis with <= in place of <
DiagnosisAtOrBelow(participant_score, cutoff) ==
    IF participant_score <= cutoff THEN "synesthete" ELSE "non_synesthete"

\* lines 295 and 307: participant_score < cutoff
Diagnosis(participant_score, cutoff) ==
    IF participant_score < cutoff THEN "synesthete" ELSE "non_synesthete"

\* the score by the mean whatever aggregate_method is
ParticipantScoreByMean(scores, aggregate_method) == mean(scores)

\* lines 277-280
ParticipantScore(scores, aggregate_method) ==
    IF aggregate_method = "median" THEN median(scores) ELSE mean(scores)

\* lines 284-308
SummaryOf(acc, n_groups, participant_score, cutoff) ==
    [status |-> "ok",
     participant_score |-> participant_score,
     cct_mean |-> mean(acc.valid_trigger_scores),
     cct_std |-> IF Len(acc.valid_trigger_scores) > 1 THEN pstdev(acc.valid_trigger_scores) ELSE 0,
     cct_median |-> median(acc.valid_trigger_scores),
     n_valid_triggers |-> Len(acc.valid_trigger_scores),
     n_no_color_triggers |-> acc.none_counts,
     none_pct |-> (acc.none_counts * 100 * 100) \div Max(1, n_groups),
     rt_mean |-> IF Len(acc.rt_list) > 0 THEN PyInt(mean(acc.rt_list)) ELSE None,
     diagnosis |-> Diagnosis(participant_score, cutoff)]

\* lines 277-308
OkSummary(acc, n_groups, cutoff, aggregate_method) ==
    SummaryOf(acc, n_groups, ParticipantScore(acc.valid_trigger_scores, aggregate_method), cutoff)

\* the condition of line 269 with <= in place of <
InsufficientAtOrBelow(acc, min_triggers) ==
    Len(acc.valid_trigger_scores) = 0 \/ Len(acc.valid_trigger_scores) <= min_triggers

\* the condition of line 269
Insufficient(acc, min_triggers) ==
    Len(acc.valid_trigger_scores) = 0 \/ Len(acc.valid_trigger_scores) < min_triggers

\* lines 268-310 with none_pct over the groups of three or more trials only
AggregateOverComplete(acc, n_groups, min_triggers, cutoff, aggregate_method) ==
    IF acc.raised THEN acc.error
    ELSE IF Insufficient(acc, min_triggers)
    THEN [per_trigger |-> acc.per_trigger, participant |-> InsufficientSummary(acc)]
    ELSE [per_trigger |-> acc.per_trigger,
          participant |-> OkSummary(acc, Len(acc.valid_trigger_scores) + acc.none_counts,
                                    cutoff, aggregate_method)]

\* lines 268-310, on the outcome of the loop
Aggregate(acc, n_groups, min_triggers, cutoff, aggregate_method) ==
    IF acc.raised THEN acc.error
    ELSE IF Insufficient(acc, min_triggers)
    THEN [per_trigger |-> acc.per_trigger, participant |-> InsufficientSummary(acc)]
    ELSE [per_trigger |-> acc.per_trigger,
          participant |-> OkSummary(acc, n_groups, cutoff, aggregate_method)]

\* lines 210-310, on the groups dict; len(groups) is the number of its keys
Grouped(grps, min_triggers, cutoff, aggregate_method) ==
    Aggregate(GroupLoop(LoopStart, grps.keys, grps), Len(grps.keys),
              min_triggers, cutoff, aggregate_method)

\* the analysis without the early return of lines 195-196
AnalyzeWithoutGuard(ts, min_triggers, cutoff, aggregate_method) ==
    Grouped(GroupsOf(ts), min_triggers, cutoff, aggregate_method)

analyze_participant_logic(ts, min_triggers, cutoff, aggregate_method) ==
    IF Len(ts) = 0 THEN [error |-> "no_trials"]
    ELSE Grouped(GroupsOf(ts), min_triggers, cutoff, aggregate_method)

\* ------------------------------------------------------------- the inputs
\* stimulus_id and meta_json of a logged trial: an explicit stimulus id 1, the
\* metadata trigger "1", or neither
KeyShapes ==
    { <<PyInt(1), EmptyDict>>,
      <<None, PyDict([trigger |-> PyStr(<<"1">>)])>>,
      <<None, EmptyDict>> }

\* selected_r, selected_g, selected_b of a logged trial: no color, red, blue
NoColor == <<None, None, None>>
ColorRed == <<PyInt(255), PyInt(0), PyInt(0)>>
ColorBlue == <<PyInt(0), PyInt(0), PyInt(255)>>
ColorShapes ==
    { NoColor,
      <<PyInt(255), PyInt(0), PyInt(0)>>,
      <<PyInt(0), PyInt(0), PyInt(255)>> }

\* the arguments of a call: cutoffs are 0.0 and the default 135.0
MinTriggersValues == {0, 1, 2}
CutoffValues == {0, 13500}
AggregateMethods == {"mean"}

\* the defaults of lines 173-175
DefaultParams == [min_triggers |-> 1, cutoff |-> 13500, aggregate_method |-> "mean"]

\* stimulus_id values and meta_json values of the trials of the grouping
\* specification: every combination of an absent, zero or non-zero stimulus
\* id with an absent, empty or non-empty trigger and stimulus field
StimulusIds == {None, PyInt(0), PyInt(1)}
TriggerFields == {None, PyStr(<<>>), PyInt(0), PyStr(<<"A">>)}
StimulusFields == {None, PyStr(<<>>), PyStr(<<"B">>)}

\* the metadata map holding the given fields (None: the field is absent)
MetaWith(trigger, stimulus) ==
    PyDict([k \in ({"trigger"} \ (IF IsNone(trigger) THEN {"trigger"} ELSE {}))
                  \cup ({"stimulus"} \ (IF IsNone(stimulus) THEN {"stimulus"} ELSE {}))
              |-> IF k = "trigger" THEN trigger ELSE stimulus])

MetaShapes == {None} \cup {MetaWith(tr, st) : tr \in TriggerFields, st \in StimulusFields}

\* ------------------------------------------------------- the state machine
Pending == [pending |-> TRUE]

\* the database as the analysis sees it: the rows added to db.session and not
\* yet committed, the committed TestData and AnalyzedTestData rows, and
\* whether a Participant row with the participant's id exists
EmptyDb == [session |-> <<>>, committed |-> <<>>, participant |-> FALSE]

\* no answer has been given to a request
NoResponse == [status |-> 0]

Init ==
    /\ trials = <<>>
    /\ params = DefaultParams
    /\ groups = NoGroups
    /\ result = Pending
    /\ pc = "collect"
    /\ db = EmptyDb
    /\ response = NoResponse

\* the ColorTrial row stored for a response, with the fields the analysis reads; ids in sequence
NewTrial(stimulus_id, meta_json, rgb) ==
    [id |-> Len(trials) + 1,
     stimulus_id |-> stimulus_id,
     trial_index |-> None,
     selected_r |-> rgb[1],
     selected_g |-> rgb[2],
     selected_b |-> rgb[3],
     response_ms |-> None,
     meta_json |-> meta_json]

\* a response of the participant is stored
LogTrial(key, rgb) ==
    /\ pc = "collect"
    /\ Len(trials) < MaxTrials
    /\ trials' = Append(trials, NewTrial(key[1], key[2], rgb))
    /\ UNCHANGED <<params, groups, result, pc, db, response>>

\* a response without a color is stored, with any stimulus id and metadata
LogKeyedTrial(stimulus_id, meta_json) ==
    /\ pc = "collect"
    /\ Len(trials) < MaxKeyedTrials
    /\ trials' = Append(trials, NewTrial(stimulus_id, meta_json, NoColor))
    /\ UNCHANGED <<params, groups, result, pc, db, response>>

\* analyze_participant_logic(trials, min_triggers, cutoff, aggregate_method)
\* runs to its return: params are its arguments, groups its groups dict,
\* result what it returns
Analyze(min_triggers, cutoff, aggregate_method) ==
    /\ pc = "collect"
    /\ params' = [min_triggers |-> min_triggers, cutoff |-> cutoff,
                  aggregate_method |-> aggregate_method]
    /\ groups' = GroupsOf(trials)
    /\ result' = analyze_participant_logic(trials, min_triggers, cutoff, aggregate_method)
    /\ pc' = "done"
    /\ UNCHANGED <<trials, db, response>>

Next ==
    \/ \E key \in KeyShapes, rgb \in ColorShapes : LogTrial(key, rgb)
    \/ \E m \in MinTriggersValues, c \in CutoffValues, a \in AggregateMethods : Analyze(m, c, a)

Spec == Init /\ [][Next]_vars

\* the grouping specification: trials of every key shape, analysed with the defaults
NextKeys ==
    \/ \E sid \in StimulusIds, meta \in MetaShapes : LogKeyedTrial(sid, meta)
    \/ Analyze(DefaultParams.min_triggers, DefaultParams.cutoff, DefaultParams.aggregate_method)

SpecKeys == Init /\ [][NextKeys]_vars

\* the ordering specification: trials of two triggers whose keys render
\* alike, with a missing or explicit trial_index, analysed with the defaults
IndexShapes == {None, PyInt(1)}
OrderedColors == {NoColor, <<PyInt(255), PyInt(0), PyInt(0)>>}
OrderedKeys == {<<None, PyDict([trigger |-> PyStr(<<"1">>)])>>, <<PyInt(1), EmptyDict>>}

\* a response with a trial_index is stored
LogOrderedTrial(key, rgb, trial_index) ==
    /\ pc = "collect"
    /\ Len(trials) < MaxOrderedTrials
    /\ trials' = Append(trials, [NewTrial(key[1], key[2], rgb) EXCEPT !.trial_index = trial_index])
    /\ UNCHANGED <<params, groups, result, pc, db, response>>

NextOrder ==
    \/ \E key \in OrderedKeys, rgb \in OrderedColors, ix \in IndexShapes :
          LogOrderedTrial(key, rgb, ix)
    \/ Analyze(DefaultParams.min_triggers, DefaultParams.cutoff, DefaultParams.aggregate_method)

SpecOrder == Init /\ [][NextOrder]_vars

\* the latency specification: trials of two triggers with or without a
\* response latency, analysed with the defaults
LatencyShapes == {None, PyInt(300), PyInt(500)}
TimedKeys == {<<PyInt(1), EmptyDict>>, <<None, EmptyDict>>}

\* a response with a response_ms is stored
LogTimedTrial(key, rgb, response_ms) ==
    /\ pc = "collect"
    /\ Len(trials) < MaxTimedTrials
    /\ trials' = Append(trials, [NewTrial(key[1], key[2], rgb) EXCEPT !.response_ms = response_ms])
    /\ UNCHANGED <<params, groups, result, pc, db, response>>

NextLatency ==
    \/ \E key \in TimedKeys, rgb \in OrderedColors, ms \in LatencyShapes :
          LogTimedTrial(key, rgb, ms)
    \/ Analyze(DefaultParams.min_triggers, DefaultParams.cutoff, DefaultParams.aggregate_method)

SpecLatency == Init /\ [][NextLatency]_vars

\* the aggregation specification: whole batches of responses to one of
\* three triggers named in the metadata, analysed by mean or by median
BatchKeys ==
    { PyDict([trigger |-> PyStr(<<"A">>)]),
      PyDict([trigger |-> PyStr(<<"B">>)]),
      PyDict([trigger |-> PyStr(<<"C">>)]) }

\* the colors of a batch: three reds, two reds and a blue, three responses
\* without a color, or two reds only
BatchShapes ==
    { <<ColorRed, ColorRed, ColorRed>>,
      <<ColorRed, ColorRed, ColorBlue>>,
      <<NoColor, NoColor, NoColor>>,
      <<ColorRed, ColorRed>> }

AggregateChoices == {"mean", "median"}

\* the responses of a batch are stored, one ColorTrial each
LogBatch(meta_json, colors) ==
    /\ pc = "collect"
    /\ Len(trials) + Len(colors) <= MaxBatchedTrials
    /\ trials' = trials \o [i \in 1..Len(colors) |->
                     [NewTrial(None, meta_json, colors[i]) EXCEPT !.id = Len(trials) + i]]
    /\ UNCHANGED <<params, groups, result, pc, db, response>>

NextStats ==
    \/ \E meta \in BatchKeys, colors \in BatchShapes : LogBatch(meta, colors)
    \/ \E a \in AggregateChoices :
          Analyze(DefaultParams.min_triggers, DefaultParams.cutoff, a)

SpecStats == Init /\ [][NextStats]_vars

\* ------------------------------------------ hex_to_rgb on its own
\* the longest string handed to hex_to_rgb
MaxHexLen == 7

\* a lower-case and an upper-case hex digit, the prefix, a sign and a letter
\* that is no hex digit
HexAlphabet == {"f", "A", "#", "-", "g"}

\* before the call: params holds the argument, None or the empty string
InitHex ==
    /\ trials = <<>>
    /\ params \in {[hexstr |-> None], [hexstr |-> PyStr(<<>>)]}
    /\ groups = NoGroups
    /\ result = Pending
    /\ pc = "collect"
    /\ db = EmptyDb
    /\ response = NoResponse

\* the client's string grows by one character
TypeChar(c) ==
    /\ pc = "collect"
    /\ IsStr(params.hexstr)
    /\ Len(params.hexstr[2]) < MaxHexLen
    /\ params' = [hexstr |-> PyStr(Append(params.hexstr[2], c))]
    /\ UNCHANGED <<trials, groups, result, pc, db, response>>

\* hex_to_rgb(hexstr) runs to its return
CallHexToRgb ==
    /\ pc = "collect"
    /\ result' = hex_to_rgb(params.hexstr)
    /\ pc' = "done"
    /\ UNCHANGED <<trials, params, groups, db, response>>

NextHex ==
    \/ \E c \in HexAlphabet : TypeChar(c)
    \/ CallHexToRgb

SpecHex == InitHex /\ [][NextHex]_vars

\* ------------------------------------- trial_rgb_or_none on its own
\* hex strings of a payload: "#ff0000", "#00f", and one that is no hex color
HexRed == PyStr(<<"#", "f", "f", "0", "0", "0", "0">>)
HexBlueShort == PyStr(<<"#", "0", "0", "f">>)
HexMalformed == PyStr(<<"z", "z", "z">>)

\* color objects of a payload: complete in lower case, with r only, and
\* complete in upper case
ObjectLower == PyDict([r |-> PyInt(1), g |-> PyInt(2), b |-> PyInt(3)])
ObjectPartial == PyDict([r |-> PyInt(1)])
ObjectUpper == PyDict([R |-> PyInt(4), G |-> PyInt(5), B |-> PyInt(6)])

\* the metadata keys a payload may carry: two of the hex keys and two of the
\* object keys the code reads, and two hex keys in another case
ExtractKeys ==
    {"selected_hex", "color_hex", "selected_color", "selectedColor", "SELECTED_HEX", "Hex"}

\* the values a payload may carry under a key
ExtractValues(k) ==
    CASE k = "selected_hex" -> {HexRed, HexMalformed}
      [] k = "color_hex" -> {HexBlueShort}
      [] k = "selected_color" -> {ObjectLower, ObjectPartial}
      [] k = "selectedColor" -> {ObjectUpper}
      [] k = "SELECTED_HEX" -> {HexRed}
      [] k = "Hex" -> {HexBlueShort}

AllExtractValues == UNION {ExtractValues(k) : k \in ExtractKeys}

\* meta_json with any subset of the keys
ExtractMetas ==
    UNION { { PyDict(f) : f \in {g \in [D -> AllExtractValues] :
                                    \A k \in D : g[k] \in ExtractValues(k)} }
            : D \in SUBSET ExtractKeys }

\* selected_r, selected_g, selected_b: none, all three, or two of them
ExtractChannels == {NoColor, ColorBlue, <<PyInt(255), PyInt(0), None>>}

\* the one response whose color is extracted is stored
CaptureTrial(meta_json, rgb) ==
    /\ pc = "collect"
    /\ trials = <<>>
    /\ trials' = <<NewTrial(PyInt(1), meta_json, rgb)>>
    /\ UNCHANGED <<params, groups, result, pc, db, response>>

\* trial_rgb_or_none(t) runs to its return on the stored trial
CallTrialRgbOrNone ==
    /\ pc = "collect"
    /\ Len(trials) = 1
    /\ result' = trial_rgb_or_none(trials[1])
    /\ pc' = "done"
    /\ UNCHANGED <<trials, params, groups, db, response>>

NextExtract ==
    \/ \E meta \in ExtractMetas, rgb \in ExtractChannels : CaptureTrial(meta, rgb)
    \/ CallTrialRgbOrNone

SpecExtract == Init /\ [][NextExtract]_vars

\* --------------------------------------- the analysis of malformed payloads
MaxMalformedTrials == 3

\* meta_json and selected_r, selected_g, selected_b of a stored response: a
\* red one, one with a non-numeric channel, one whose metadata is a string,
\* one with an integer for a hex string, one with a string for a color object
MalformedShapes ==
    { <<EmptyDict, ColorRed>>,
      <<EmptyDict, <<PyStr(<<"a", "b", "c">>), PyInt(0), PyInt(0)>>>>,
      <<PyStr(<<"x">>), NoColor>>,
      <<PyDict([selected_hex |-> PyInt(123456)]), NoColor>>,
      <<PyDict([selected_color |-> PyStr(<<"r", "e", "d">>)]), NoColor>> }

\* a response of stimulus 1 is stored as the client sent it
LogMalformedTrial(meta_json, rgb) ==
    /\ pc = "collect"
    /\ Len(trials) < MaxMalformedTrials
    /\ trials' = Append(trials, NewTrial(PyInt(1), meta_json, rgb))
    /\ UNCHANGED <<params, groups, result, pc, db, response>>

NextMalformed ==
    \/ \E shape \in MalformedShapes : LogMalformedTrial(shape[1], shape[2])
    \/ Analyze(DefaultParams.min_triggers, DefaultParams.cutoff, DefaultParams.aggregate_method)

SpecMalformed == Init /\ [][NextMalformed]_vars

\* --------------------------------------------- the metric on its own
\* the most points handed to the metric
MaxPoints == 3

\* CIELUV points: L* 0 or 50, u* -80, 0 or 175, v* -130 or 0
LuvPoints == {<<L, u, v>> : L \in {0, 5000}, u \in {-8000, 0, 17500}, v \in {-13000, 0}}

\* before the calls: params holds the list of points
InitMetric ==
    /\ trials = <<>>
    /\ params = [points |-> <<>>]
    /\ groups = NoGroups
    /\ result = Pending
    /\ pc = "collect"
    /\ db = EmptyDb
    /\ response = NoResponse

\* luvs.append(luv)
AddPoint(p) ==
    /\ pc = "collect"
    /\ Len(params.points) < MaxPoints
    /\ params' = [points |-> Append(params.points, p)]
    /\ UNCHANGED <<trials, groups, result, pc, db, response>>

\* luv_distance(a, b) runs on a pair of points
CallLuvDistance ==
    /\ pc = "collect"
    /\ Len(params.points) = 2
    /\ result' = [luv_distance |-> luv_distance(params.points[1], params.points[2])]
    /\ pc' = "done"
    /\ UNCHANGED <<trials, params, groups, db, response>>

\* mean_pairwise_distance(triples) runs on the list, whatever its length
CallMeanPairwiseDistance ==
    /\ pc = "collect"
    /\ result' = [mean_pairwise_distance |-> mean_pairwise_distance(params.points)]
    /\ pc' = "done"
    /\ UNCHANGED <<trials, params, groups, db, response>>

NextMetric ==
    \/ \E p \in LuvPoints : AddPoint(p)
    \/ CallLuvDistance
    \/ CallMeanPairwiseDistance

SpecMetric == InitMetric /\ [][NextMetric]_vars

\* ------------------------------------- the color transform on its own
\* X, Y and Z of a call of xyz_to_luv; X = -0.15 with Y = 0.01 and Z = 0
\* makes the denominator of line 46 zero away from black
XyzValues ==
    ({0, 4125, 9505} \X {0, 100, FP} \X {0, 100, 10888}) \cup {<<-1500, 100, 0>>}

\* the channels of a call of rgb255_to_luv
ChannelValues == {0, 64, 128, 192, 255}

\* xyz_to_luv(X, Y, Z) runs to its return
CallXyzToLuv(X, Y, Z) ==
    /\ pc = "collect"
    /\ params' = [xyz |-> <<X, Y, Z>>]
    /\ result' = xyz_to_luv(X, Y, Z)
    /\ pc' = "done"
    /\ UNCHANGED <<trials, groups, db, response>>

\* rgb255_to_luv(rgb) runs to its return
CallRgb255ToLuv(rgb) ==
    /\ pc = "collect"
    /\ params' = [rgb |-> rgb]
    /\ result' = rgb255_to_luv(rgb)
    /\ pc' = "done"
    /\ UNCHANGED <<trials, groups, db, response>>

NextLuv ==
    \/ \E xyz \in XyzValues : CallXyzToLuv(xyz[1], xyz[2], xyz[3])
    \/ \E r \in ChannelValues, g \in ChannelValues, b \in ChannelValues :
          CallRgb255ToLuv(<<r, g, b>>)

SpecLuv == Init /\ [][NextLuv]_vars

\* ------------------------------------------ the representative color
MaxSampledTrials == 3

\* meta_json and selected_r, selected_g, selected_b of the responses to one
\* stimulus: four colors in direct channels, and the hex strings "#ff6496"
\* and "-f-f-f" in the metadata
SampleShapes ==
    { <<EmptyDict, <<PyInt(100), PyInt(150), PyInt(200)>>>>,
      <<EmptyDict, <<PyInt(102), PyInt(148), PyInt(198)>>>>,
      <<EmptyDict, <<PyInt(98), PyInt(152), PyInt(202)>>>>,
      <<EmptyDict, <<PyInt(255), PyInt(0), PyInt(1)>>>>,
      <<PyDict([selected_hex |-> PyStr(<<"#", "f", "f", "6", "4", "9", "6">>)]), NoColor>>,
      <<PyDict([selected_hex |-> PyStr(<<"-", "f", "-", "f", "-", "f">>)]), NoColor>> }

\* a response to stimulus 1 is stored
LogSample(meta_json, rgb) ==
    /\ pc = "collect"
    /\ Len(trials) < MaxSampledTrials
    /\ trials' = Append(trials, NewTrial(PyInt(1), meta_json, rgb))
    /\ UNCHANGED <<params, groups, result, pc, db, response>>

NextSamples ==
    \/ \E shape \in SampleShapes : LogSample(shape[1], shape[2])
    \/ Analyze(DefaultParams.min_triggers, DefaultParams.cutoff, DefaultParams.aggregate_method)

SpecSamples == Init /\ [][NextSamples]_vars

\* ------------------------------------- analyze_participant and /run
\* the most ColorTrial rows of the participant
MaxStoredTrials == 4

\* d.get(field, default) on a dict with string keys
Get(d, field, default) == IF field \in DOMAIN d THEN d[field] ELSE default

\* d.get(field) == v, for a v that is not None
FieldIs(d, field, v) == field \in DOMAIN d /\ d[field] = v

\* (t.meta_json or {}).get("test_type"), line 60
TestTypeOf(t) == DictGet(MetaOf(t), "test_type")

\* lines 58-63
FilterByTestType(all_trials, test_type) ==
    IF Truthy(test_type)
    THEN SelectSeq(all_trials, LAMBDA t : TestTypeOf(t) = test_type)
    ELSE all_trials

\* the order of lines 53: stimulus_id ascending, then trial_index ascending
\* (both are integers on the rows stored here)
RowBefore(a, b) ==
    \/ a.stimulus_id[2] < b.stimulus_id[2]
    \/ a.stimulus_id[2] = b.stimulus_id[2] /\ a.trial_index[2] < b.trial_index[2]

RECURSIVE InsertRow(_, _)
InsertRow(rows, t) ==
    IF Len(rows) = 0 THEN <<t>>
    ELSE IF RowBefore(t, Head(rows)) THEN <<t>> \o rows
    ELSE <<Head(rows)>> \o InsertRow(Tail(rows), t)

RECURSIVE OrderedRows(_)
\* lines 50-55: the participant's rows in the order of the query
OrderedRows(rows) ==
    IF Len(rows) = 0 THEN <<>>
    ELSE InsertRow(OrderedRows(SubSeq(rows, 1, Len(rows) - 1)), rows[Len(rows)])

\* test_type or "color_cct"
TestTypeLabel(test_type) ==
    PyOr(test_type, PyStr(<<"c", "o", "l", "o", "r", "_", "c", "c", "t">>))

\* lines 97-104: the minimal TestData row of the insufficient_data outcome
MinimalTestData(participant_summary, test_type) ==
    [table |-> "TestData",
     test_type |-> TestTypeLabel(test_type),
     cct_triggers |-> Get(participant_summary, "n_valid_triggers", 0),
     cct_trials_per_trigger |-> 3,
     cct_valid |-> 0,
     cct_none_pct |-> Get(participant_summary, "none_pct", 0)]

\* the full TestData row with cct_pass set whenever a diagnosis was made
FullTestDataPassing(participant_summary, per_trigger, n_groups, cutoff, test_type) ==
    [table |-> "TestData",
     test_type |-> TestTypeLabel(test_type),
     cct_cutoff |-> cutoff,
     cct_triggers |-> n_groups,
     cct_trials_per_trigger |-> 3,
     cct_valid |-> Get(participant_summary, "n_valid_triggers", 0),
     cct_none_pct |-> Get(participant_summary, "none_pct", 0),
     cct_rt_mean |-> Get(participant_summary, "rt_mean", None),
     cct_mean |-> Get(participant_summary, "cct_mean", None),
     cct_std |-> Get(participant_summary, "cct_std", None),
     cct_median |-> Get(participant_summary, "cct_median", None),
     cct_per_trigger |-> per_trigger,
     cct_pass |-> "diagnosis" \in DOMAIN participant_summary]

\* lines 110-125: the full TestData row
FullTestData(participant_summary, per_trigger, n_groups, cutoff, test_type) ==
    [table |-> "TestData",
     test_type |-> TestTypeLabel(test_type),
     cct_cutoff |-> cutoff,
     cct_triggers |-> n_groups,
     cct_trials_per_trigger |-> 3,
     cct_valid |-> Get(participant_summary, "n_valid_triggers", 0),
     cct_none_pct |-> Get(participant_summary, "none_pct", 0),
     cct_rt_mean |-> Get(participant_summary, "rt_mean", None),
     cct_mean |-> Get(participant_summary, "cct_mean", None),
     cct_std |-> Get(participant_summary, "cct_std", None),
     cct_median |-> Get(participant_summary, "cct_median", None),
     cct_per_trigger |-> per_trigger,
     cct_pass |-> FieldIs(participant_summary, "diagnosis", "synesthete")]

\* lines 133-137: the AnalyzedTestData row
DiagnosisRecord(participant_summary, test_type) ==
    [table |-> "AnalyzedTestData",
     test_type |-> TestTypeLabel(test_type),
     diagnosis |-> FieldIs(participant_summary, "diagnosis", "synesthete")]

\* the test of line 76 left out
NeverReturnsEarly(res) == FALSE

\* line 76: result.get("error") == "no_trials"
ReturnsEarly(res) == FieldIs(res, "error", "no_trials")

\* line 95
IsInsufficient(participant_summary) == FieldIs(participant_summary, "status", "insufficient_data")

\* lines 95-125: the TestData row for the result res over n_groups groups
TestDataFor(res, n_groups, cutoff, test_type) ==
    IF IsInsufficient(Get(res, "participant", <<>>))
    THEN MinimalTestData(Get(res, "participant", <<>>), test_type)
    ELSE FullTestData(Get(res, "participant", <<>>), Get(res, "per_trigger", <<>>),
                      n_groups, cutoff, test_type)

\* db.session.add(row)
SessionAdd(d, row) == [d EXCEPT !.session = Append(@, row)]

\* db.session.commit()
SessionCommit(d) == [d EXCEPT !.committed = @ \o d.session, !.session = <<>>]

\* db.session.rollback()
SessionRollback(d) == [d EXCEPT !.session = <<>>]

\* stimulus_id, colors and metadata test_type of the stored responses
StoredShapes ==
    { <<1, ColorRed, "letter">>, <<1, NoColor, "letter">>, <<1, ColorRed, "word">>,
      <<1, ColorBlue, "letter">>, <<2, ColorRed, "letter">>, <<2, NoColor, "letter">> }

TestTypeMeta(label) ==
    PyDict([test_type |-> PyStr(IF label = "letter" THEN <<"l", "e", "t", "t", "e", "r">>
                                ELSE <<"w", "o", "r", "d">>)])

\* the test_type of a /run request: none, or "letter"
RequestLabels == {None, PyStr(<<"l", "e", "t", "t", "e", "r">>)}

\* a Participant row with the participant's id is stored
RegisterParticipant ==
    /\ pc = "collect"
    /\ ~db.participant
    /\ db' = [db EXCEPT !.participant = TRUE]
    /\ UNCHANGED <<trials, params, groups, result, pc, response>>

\* a response is stored with its position as trial_index
LogStoredTrial(stimulus_id, rgb, label) ==
    /\ pc = "collect"
    /\ Len(trials) < MaxStoredTrials
    /\ trials' = Append(trials, [NewTrial(PyInt(stimulus_id), TestTypeMeta(label), rgb)
                                    EXCEPT !.trial_index = PyInt(Len(trials) + 1)])
    /\ UNCHANGED <<params, groups, result, pc, db, response>>

\* run_analysis, lines 145-168: a request with a participant_id and the
\* test_type label calls analyze_participant(participant_str_id), with the
\* defaults for every other argument
RunRequest(label) ==
    /\ pc = "collect"
    /\ params' = [data |-> [test_type |-> label],
                  min_triggers |-> 1, cutoff |-> 13500, aggregate_method |-> "mean",
                  test_type |-> None, trials |-> <<>>]
    /\ pc' = "fetch"
    /\ UNCHANGED <<trials, groups, result, db, response>>

\* lines 50-63: the rows are fetched and filtered
FetchTrials ==
    /\ pc = "fetch"
    /\ params' = [params EXCEPT !.trials = FilterByTestType(OrderedRows(trials), params.test_type)]
    /\ pc' = "logic"
    /\ UNCHANGED <<trials, groups, result, db, response>>

\* lines 66-73: the pure analysis runs; an exception leaves analyze_participant
RunLogic ==
    /\ pc = "logic"
    /\ result' = analyze_participant_logic(params.trials, params.min_triggers,
                                            params.cutoff, params.aggregate_method)
    /\ pc' = IF "exception" \in DOMAIN result' THEN "raised" ELSE "persist"
    /\ UNCHANGED <<trials, params, groups, db, response>>

\* lines 76-77
ReturnNoTrials ==
    /\ pc = "persist"
    /\ ReturnsEarly(result)
    /\ pc' = "return"
    /\ UNCHANGED <<trials, params, groups, result, db, response>>

\* lines 79-105 and 110-126: the groups are counted and the TestData row is added
AddTestData ==
    /\ pc = "persist"
    /\ ~ReturnsEarly(result)
    /\ groups' = GroupsOf(params.trials)
    /\ db' = SessionAdd(db, TestDataFor(result, Len(groups'.keys), params.cutoff, params.test_type))
    /\ pc' = "commit_td"
    /\ UNCHANGED <<trials, params, result, response>>

\* lines 106-107 and 127
CommitTestData ==
    /\ pc = "commit_td"
    /\ db' = SessionCommit(db)
    /\ pc' = IF IsInsufficient(Get(result, "participant", <<>>)) THEN "return" ELSE "query"
    /\ UNCHANGED <<trials, params, groups, result, response>>

\* lines 130-138: the Participant is looked up and the diagnosis row added
AddDiagnosis ==
    /\ pc = "query"
    /\ db' = IF db.participant
             THEN SessionAdd(db, DiagnosisRecord(Get(result, "participant", <<>>), params.test_type))
             ELSE db
    /\ pc' = IF db.participant THEN "commit_atd" ELSE "return"
    /\ UNCHANGED <<trials, params, groups, result, response>>

\* line 139
CommitDiagnosis ==
    /\ pc = "commit_atd"
    /\ db' = SessionCommit(db)
    /\ pc' = "return"
    /\ UNCHANGED <<trials, params, groups, result, response>>

\* lines 77, 107, 141 and 169: the result is returned and answered
Respond ==
    /\ pc = "return"
    /\ response' = [status |-> 200, body |-> result]
    /\ pc' = "answered"
    /\ UNCHANGED <<trials, params, groups, result, db>>

\* lines 170-175: a database call of analyze_participant raises (the query
\* of line 55, a commit, the query of line 131), or the analysis has raised;
\* the session is rolled back and the answer is 500
FailRequest ==
    /\ pc \in {"fetch", "raised", "commit_td", "query", "commit_atd"}
    /\ db' = SessionRollback(db)
    /\ response' = [status |-> 500]
    /\ pc' = "answered"
    /\ UNCHANGED <<trials, params, groups, result>>

NextRun ==
    \/ RegisterParticipant
    \/ \E shape \in StoredShapes : LogStoredTrial(shape[1], shape[2], shape[3])
    \/ \E label \in RequestLabels : RunRequest(label)
    \/ FetchTrials
    \/ RunLogic
    \/ ReturnNoTrials
    \/ AddTestData
    \/ CommitTestData
    \/ AddDiagnosis
    \/ CommitDiagnosis
    \/ Respond
    \/ FailRequest

SpecRun == Init /\ [][NextRun]_vars

\* ------------------------------ two invocations of analyze_participant_logic
\* the most trials stored before the two invocations start
MaxPairedTrials == 3

\* the two invocations that run side by side
Invocations == {1, 2}

\* stimulus id and color of the stored trials
PairedShapes == { <<PyInt(1), ColorRed>>, <<PyInt(1), NoColor>>, <<PyInt(2), ColorRed>> }

\* the arguments of one call; db_session keeps its default and is never read
CallArguments(ts, min_triggers) ==
    [trials |-> ts, min_triggers |-> min_triggers,
     cutoff |-> DefaultParams.cutoff, aggregate_method |-> DefaultParams.aggregate_method]

\* lines 198-213: the structures an invocation allocates, and its place in
\* the loop over the trials
FreshLocals ==
    [groups |-> NoGroups, next |-> 1, keys |-> <<>>, acc |-> LoopStart]

\* an assignment to a local name that every invocation shares
StoreShared(frames, i, locals) == [j \in DOMAIN frames |-> locals]

\* an assignment to a local name of invocation i: each call has its own frame
StoreLocals(frames, i, locals) == [frames EXCEPT ![i] = locals]

InitPair ==
    /\ trials = <<>>
    /\ params = [i \in Invocations |-> CallArguments(<<>>, DefaultParams.min_triggers)]
    /\ groups = [i \in Invocations |-> FreshLocals]
    /\ result = [i \in Invocations |-> Pending]
    /\ pc = [i \in Invocations |-> "idle"]
    /\ db = EmptyDb
    /\ response = NoResponse

\* a response is stored before the invocations start
LogPairedTrial(stimulus_id, rgb) ==
    /\ \A i \in Invocations : pc[i] = "idle"
    /\ Len(trials) < MaxPairedTrials
    /\ trials' = Append(trials, NewTrial(stimulus_id, EmptyDict, rgb))
    /\ UNCHANGED <<params, groups, result, pc, db, response>>

\* lines 171-178: invocation i is called with the first n stored trials
Invoke(i, n, min_triggers) ==
    /\ pc[i] = "idle"
    /\ params' = [params EXCEPT ![i] = CallArguments(SubSeq(trials, 1, n), min_triggers)]
    /\ groups' = StoreLocals(groups, i, FreshLocals)
    /\ pc' = [pc EXCEPT ![i] = "guard"]
    /\ UNCHANGED <<trials, result, db, response>>

\* lines 195-196
GuardStep(i) ==
    /\ pc[i] = "guard"
    /\ IF Len(params[i].trials) = 0
       THEN /\ result' = [result EXCEPT ![i] = [error |-> "no_trials"]]
            /\ pc' = [pc EXCEPT ![i] = "done"]
       ELSE /\ pc' = [pc EXCEPT ![i] = "group"]
            /\ UNCHANGED result
    /\ UNCHANGED <<trials, params, groups, db, response>>

\* lines 200-208: one iteration of the loop over the trials
GroupStep(i) ==
    /\ pc[i] = "group"
    /\ IF groups[i].next <= Len(params[i].trials)
       THEN /\ groups' = StoreLocals(groups, i,
                  [groups[i] EXCEPT
                     !.groups = GroupAppend(@, TriggerKey(params[i].trials[groups[i].next]),
                                            params[i].trials[groups[i].next]),
                     !.next = @ + 1])
            /\ UNCHANGED pc
       ELSE /\ groups' = StoreLocals(groups, i,
                  [groups[i] EXCEPT !.keys = groups[i].groups.keys])
            /\ pc' = [pc EXCEPT ![i] = "loop"]
    /\ UNCHANGED <<trials, params, result, db, response>>

\* lines 215-266: one iteration of the loop over the groups
LoopStep(i) ==
    /\ pc[i] = "loop"
    /\ Len(groups[i].keys) > 0
    /\ groups' = StoreLocals(groups, i,
          [groups[i] EXCEPT
             !.acc = ProcessGroup(@, Head(groups[i].keys),
                                  groups[i].groups.members[Head(groups[i].keys)]),
             !.keys = Tail(@)])
    /\ UNCHANGED <<trials, params, result, pc, db, response>>

\* lines 268-310: the loop is over and the invocation returns
ReturnStep(i) ==
    /\ pc[i] = "loop"
    /\ Len(groups[i].keys) = 0
    /\ result' = [result EXCEPT ![i] =
          Aggregate(groups[i].acc, Len(groups[i].groups.keys), params[i].min_triggers,
                    params[i].cutoff, params[i].aggregate_method)]
    /\ pc' = [pc EXCEPT ![i] = "done"]
    /\ UNCHANGED <<trials, params, groups, db, response>>

NextPair ==
    \/ \E shape \in PairedShapes : LogPairedTrial(shape[1], shape[2])
    \/ \E i \in Invocations, n \in 0..Len(trials), m \in {0, 1} : Invoke(i, n, m)
    \/ \E i \in Invocations : GuardStep(i)
    \/ \E i \in Invocations : GroupStep(i)
    \/ \E i \in Invocations : LoopStep(i)
    \/ \E i \in Invocations : ReturnStep(i)

SpecPair == InitPair /\ [][NextPair]_vars

\* ------------------------------------------------------------- properties
Done == pc = "done"

\* an analysis of a non-empty trial list has returned
Analysed == Done /\ Len(trials) > 0 /\ "per_trigger" \in DOMAIN result

Summary == result.participant

\* the trigger groups of the analysed trials
GroupKeys == DOMAIN groups.members
Members(k) == groups.members[k]
EntryOf(k) == result.per_trigger[ToStr(k)]

AllHaveColor(ts) == \A i \in 1..Len(ts) : trial_rgb_or_none(ts[i]) # None
IdsWithoutColor(ts) == SelectSeq([i \in 1..Len(ts) |-> ts[i].id],
                                 LAMBDA id : \E i \in 1..Len(ts) :
                                     ts[i].id = id /\ trial_rgb_or_none(ts[i]) = None)

OkGroups == {k \in GroupKeys : Len(Members(k)) >= 3 /\ AllHaveColor(Considered(Members(k)))}
NoColorGroups == {k \in GroupKeys : Len(Members(k)) >= 3 /\ ~AllHaveColor(Considered(Members(k)))}
IncompleteGroups == {k \in GroupKeys : Len(Members(k)) < 3}

\* C1: whenever the participant status is ok, the diagnosis is "synesthete"
\* exactly when participant_score < cutoff, so a score equal to the cutoff
\* gives "non_synesthete"
DiagnosisIffBelowCutoff ==
    (Analysed /\ Summary.status = "ok") =>
        /\ Summary.diagnosis \in {"synesthete", "non_synesthete"}
        /\ Summary.diagnosis = "synesthete" <=> Summary.participant_score < params.cutoff
        /\ Summary.participant_score = params.cutoff => Summary.diagnosis = "non_synesthete"

\* an ok summary whose score equals the cutoff
ScoreEqualsCutoff ==
    Analysed /\ Summary.status = "ok" /\ Summary.participant_score = params.cutoff

\* C2: an empty trial list gives exactly {"error": "no_trials"}, whatever
\* the parameters; a non-empty list gives per_trigger and participant and
\* no error field
NoTrialsIffEmpty ==
    Done => IF Len(trials) = 0
            THEN result = [error |-> "no_trials"]
            ELSE DOMAIN result = {"per_trigger", "participant"}

\* an empty list analysed with a min_triggers and a cutoff other than the defaults
EmptyListOtherParams ==
    Done /\ Len(trials) = 0 /\ params.min_triggers = 2 /\ params.cutoff = 0

\* C3: for a non-empty trial list the status is insufficient_data exactly
\* when the number of ok groups is zero or below min_triggers; that summary
\* carries the two counts and neither participant_score nor diagnosis;
\* otherwise the status is ok
InsufficientIffTooFewValid ==
    Analysed =>
        IF Cardinality(OkGroups) = 0 \/ Cardinality(OkGroups) < params.min_triggers
        THEN /\ Summary.status = "insufficient_data"
             /\ DOMAIN Summary = {"status", "n_valid_triggers", "n_no_color_triggers"}
             /\ Summary.n_valid_triggers = Cardinality(OkGroups)
             /\ Summary.n_no_color_triggers = Cardinality(NoColorGroups)
        ELSE Summary.status = "ok"

\* one ok group, fewer than the two that min_triggers asks for
OneValidBelowMinimum ==
    /\ Analysed
    /\ Cardinality(OkGroups) = 1
    /\ params.min_triggers = 2
    /\ Summary.status = "insufficient_data"

\* C4: every group with fewer than three trials has a per_trigger entry of
\* status incomplete with its own trial count and no mean_d, adds to neither
\* the valid-trigger scores nor the no-color count, and every other group
\* still has its entry
IncompleteGroupsReported ==
    Analysed =>
        /\ \A k \in IncompleteGroups :
              /\ EntryOf(k).status = "incomplete"
              /\ EntryOf(k).n_trials = Len(Members(k))
              /\ "mean_d" \notin DOMAIN EntryOf(k)
        /\ Summary.n_valid_triggers = Cardinality(OkGroups)
        /\ Summary.n_no_color_triggers = Cardinality(NoColorGroups)
        /\ \A k \in GroupKeys : ToStr(k) \in DOMAIN result.per_trigger

\* C5: a group of at least three trials has status ok exactly when its three
\* considered trials all have a color; otherwise its status is
\* no_color_present, missing_trial_ids lists the considered trials without
\* a color, and it counts as a no-color group and not as a valid one
CompleteGroupsClassified ==
    Analysed =>
        /\ \A k \in OkGroups : EntryOf(k).status = "ok"
        /\ \A k \in NoColorGroups :
              /\ EntryOf(k).status = "no_color_present"
              /\ EntryOf(k).missing_trial_ids = IdsWithoutColor(Considered(Members(k)))
        /\ Summary.n_no_color_triggers = Cardinality(NoColorGroups)
        /\ Summary.n_valid_triggers = Cardinality(OkGroups)

\* Scenario C: one group of three trials, none with direct channels, all
\* with empty metadata
ScenarioC ==
    /\ Analysed
    /\ Len(trials) = 3
    /\ Cardinality(GroupKeys) = 1
    /\ \A i \in 1..3 :
          /\ <<trials[i].selected_r, trials[i].selected_g, trials[i].selected_b>> = NoColor
          /\ MetaOf(trials[i]) = EmptyDict

\* C6 as stated: in scenario C the group is no_color_present and the
\* participant summary reports none_pct == 100.0
ScenarioCNonePct ==
    ScenarioC =>
        /\ \A k \in GroupKeys : EntryOf(k).status = "no_color_present"
        /\ "none_pct" \in DOMAIN Summary
        /\ Summary.none_pct = 100 * 100

\* C6: in scenario C the group is no_color_present and the participant
\* summary is the insufficient_data summary with no valid trigger and one
\* no-color trigger; it carries no none_pct
ScenarioCInsufficient ==
    ScenarioC =>
        /\ \A k \in GroupKeys : EntryOf(k).status = "no_color_present"
        /\ Summary = [status |-> "insufficient_data",
                      n_valid_triggers |-> 0,
                      n_no_color_triggers |-> 1]
        /\ "none_pct" \notin DOMAIN Summary

\* scenario C analysed with the default parameters
ScenarioCReached == ScenarioC /\ params = DefaultParams

\* C7: the per_trigger entry of a trigger is the entry that the analysis of
\* that trigger's trials alone gives, whatever the other trials are
EntryDependsOnOwnGroup ==
    Analysed =>
        \A k \in GroupKeys :
            EntryOf(k) = analyze_participant_logic(Members(k), params.min_triggers,
                             params.cutoff, params.aggregate_method).per_trigger[ToStr(k)]

\* the sizes of the groups, summed over the keys of the groups dict
SizesSum == SumSeq([i \in 1..Len(groups.keys) |-> Len(Members(groups.keys[i]))])

\* C8: every input trial is a member of exactly one group, extras beyond
\* the third included, no group holds a trial twice, and the group sizes
\* sum to the number of input trials
GroupingIsPartition ==
    (Done /\ Len(trials) > 0) =>
        /\ \A i \in 1..Len(trials) :
              Cardinality({k \in GroupKeys :
                              \E j \in 1..Len(Members(k)) : Members(k)[j] = trials[i]}) = 1
        /\ \A k \in GroupKeys :
              \A i, j \in 1..Len(Members(k)) : Members(k)[i] = Members(k)[j] => i = j
        /\ SizesSum = Len(trials)

\* a group with a trial beyond its third
GroupWithExtras == Done /\ \E k \in GroupKeys : Len(Members(k)) > 3

\* C9 as stated: the key is the stimulus id when present, else the trigger
\* field when present whatever its value, else the stimulus field when
\* present, else the sentinel
KeyByPresence(t) ==
    IF ~IsNone(t.stimulus_id) THEN t.stimulus_id
    ELSE IF "trigger" \in DOMAIN MetaOf(t)[2] THEN MetaOf(t)[2]["trigger"]
    ELSE IF "stimulus" \in DOMAIN MetaOf(t)[2] THEN MetaOf(t)[2]["stimulus"]
    ELSE UnknownKey

KeyPrefersPresentFields ==
    \A i \in 1..Len(trials) : TriggerKey(trials[i]) = KeyByPresence(trials[i])

\* the key by truthiness: a field that is None, empty or zero counts as absent
KeyByTruthiness(t) ==
    IF ~IsNone(t.stimulus_id) THEN t.stimulus_id
    ELSE IF "trigger" \in DOMAIN MetaOf(t)[2] /\ Truthy(MetaOf(t)[2]["trigger"])
         THEN MetaOf(t)[2]["trigger"]
    ELSE IF "stimulus" \in DOMAIN MetaOf(t)[2] /\ Truthy(MetaOf(t)[2]["stimulus"])
         THEN MetaOf(t)[2]["stimulus"]
    ELSE UnknownKey

\* C9: the key is the stimulus id when present (0 included), else the
\* trigger field when it is present and truthy, else the stimulus field
\* when it is present and truthy, else the sentinel; per_trigger is keyed
\* by the rendered keys
KeyPrefersTruthyFields ==
    /\ \A i \in 1..Len(trials) : TriggerKey(trials[i]) = KeyByTruthiness(trials[i])
    /\ Analysed =>
          DOMAIN result.per_trigger =
              {ToStr(KeyByTruthiness(trials[i])) : i \in 1..Len(trials)}

\* an analysed trial without stimulus id whose empty trigger field gives
\* way to its stimulus field
EmptyTriggerFallsThrough ==
    /\ Analysed
    /\ \E i \in 1..Len(trials) :
          /\ IsNone(trials[i].stimulus_id)
          /\ "trigger" \in DOMAIN MetaOf(trials[i])[2]
          /\ TriggerKey(trials[i]) = PyStr(<<"B">>)

\* C10: per_trigger has one entry per trigger group, and n_valid_triggers
\* is the number of its entries of status ok
OneEntryPerGroup ==
    Analysed =>
        /\ Cardinality(DOMAIN result.per_trigger) = Cardinality(GroupKeys)
        /\ Summary.n_valid_triggers =
              Cardinality({s \in DOMAIN result.per_trigger :
                              result.per_trigger[s].status = "ok"})

\* xs with the elements at positions i and i + 1 exchanged
SwapAt(xs, i) ==
    [j \in 1..Len(xs) |-> IF j = i THEN xs[i + 1] ELSE IF j = i + 1 THEN xs[i] ELSE xs[j]]

\* the elements of a list, as a set
Elements(xs) == {xs[i] : i \in 1..Len(xs)}

\* what the order of the input may not change: the status of every
\* per_trigger entry, its missing_trial_ids as a set, its distances, and the
\* participant summary
Observed(out) ==
    [entries |-> [s \in DOMAIN out.per_trigger |->
                    [status |-> out.per_trigger[s].status,
                     missing |-> IF "missing_trial_ids" \in DOMAIN out.per_trigger[s]
                                 THEN Elements(out.per_trigger[s].missing_trial_ids) ELSE {},
                     distances |-> IF "mean_d" \in DOMAIN out.per_trigger[s]
                                   THEN <<out.per_trigger[s].mean_d, out.per_trigger[s].pairwise>>
                                   ELSE <<>>]],
     participant |-> out.participant]

\* C11: the order of the input trial list is irrelevant: the analysis of
\* the list with any two neighbours exchanged (and so of any permutation)
\* gives the same per-trigger statuses, missing_trial_ids sets, distances
\* and participant summary
OrderIrrelevant ==
    Analysed =>
        \A i \in 1..(Len(trials) - 1) :
            LET other == analyze_participant_logic(SwapAt(trials, i), params.min_triggers,
                                                   params.cutoff, params.aggregate_method)
            IN "per_trigger" \in DOMAIN other /\ Observed(other) = Observed(result)

\* trial_index, a missing one counted as 0
IndexOrZero(t) == IF IsNone(t.trial_index) THEN 0 ELSE t.trial_index[2]

\* the choices of three members of a group that have the smallest
\* trial_index: no member left out has a smaller one than a member chosen
SmallestThree(ts) ==
    {c \in (1..Len(ts)) \X (1..Len(ts)) \X (1..Len(ts)) :
        /\ c[1] < c[2] /\ c[2] < c[3]
        /\ \A j \in 1..Len(ts) :
              j \notin {c[1], c[2], c[3]} =>
                  \A m \in 1..3 : IndexOrZero(ts[c[m]]) <= IndexOrZero(ts[j])}

\* the per_trigger entry of three trials of one trigger analysed alone
EntryAlone(k, three) ==
    analyze_participant_logic(three, params.min_triggers, params.cutoff,
                              params.aggregate_method).per_trigger[ToStr(k)]

\* status, missing ids, distance and representative color of an entry
Outcome(e) ==
    [status |-> e.status,
     n_trials |-> e.n_trials,
     missing |-> IF "missing_trial_ids" \in DOMAIN e THEN Elements(e.missing_trial_ids) ELSE {},
     mean_d |-> IF "mean_d" \in DOMAIN e THEN <<e.mean_d>> ELSE <<>>,
     representative |-> IF "representative_rgb" \in DOMAIN e
                        THEN <<e.representative_rgb, e.representative_hex>> ELSE <<>>]

\* C12: the entry of a group of more than three trials is the entry of
\* three of its trials with the smallest trial_index (missing counted as
\* 0) analysed alone, with n_trials 3, whatever the trials beyond them are
OnlyFirstThreeCount ==
    Analysed =>
        \A k \in GroupKeys :
            Len(Members(k)) > 3 =>
                \E c \in SmallestThree(Members(k)) :
                    /\ EntryOf(k).n_trials = 3
                    /\ Outcome(EntryOf(k)) =
                          Outcome(EntryAlone(k, <<Members(k)[c[1]], Members(k)[c[2]],
                                                  Members(k)[c[3]]>>))

\* the latencies of the input trials that carry one, in input order
AllLatencies ==
    LET timed == SelectSeq(trials, LAMBDA t : ~IsNone(t.response_ms))
    IN [i \in 1..Len(timed) |-> timed[i].response_ms[2]]

\* C13: when the participant status is ok, rt_mean is the mean latency of
\* every input trial that carries one, whatever its group and its place in
\* the group, and is None only when no input trial carries a latency
RtMeanOverAllTrials ==
    (Analysed /\ Summary.status = "ok") =>
        Summary.rt_mean = IF Len(AllLatencies) = 0 THEN None
                          ELSE PyInt(SumSeq(AllLatencies) \div Len(AllLatencies))

\* the mean distances of the per_trigger entries of status ok, in the order
\* of the groups
OkDistances ==
    LET ok == SelectSeq(groups.keys, LAMBDA k : EntryOf(k).status = "ok")
    IN [i \in 1..Len(ok) |-> EntryOf(ok[i]).mean_d]

\* the n-th smallest element of xs, counted with repetitions
NthSmallest(xs, n) ==
    CHOOSE v \in Elements(xs) :
        /\ Cardinality({i \in 1..Len(xs) : xs[i] < v}) < n
        /\ Cardinality({i \in 1..Len(xs) : xs[i] <= v}) >= n

\* the median of xs: the middle element, or the mean of the two middle ones
MedianOf(xs) ==
    IF Len(xs) % 2 = 1 THEN NthSmallest(xs, (Len(xs) + 1) \div 2)
    ELSE (NthSmallest(xs, Len(xs) \div 2) + NthSmallest(xs, Len(xs) \div 2 + 1)) \div 2

MeanOf(xs) == SumSeq(xs) \div Len(xs)

\* the mean squared deviation of xs from its mean
VarianceOf(xs) == SumSeq([i \in 1..Len(xs) |-> (xs[i] - MeanOf(xs)) * (xs[i] - MeanOf(xs))]) \div Len(xs)

\* C14: an ok summary always reports cct_mean, cct_median and cct_std, the
\* mean, median and population standard deviation of the mean distances of
\* the ok groups, whatever aggregate_method is; participant_score is
\* cct_median under "median" and cct_mean under "mean"; cct_std is 0 for a
\* single value
StatisticsOfOkDistances ==
    (Analysed /\ Summary.status = "ok") =>
        /\ {"cct_mean", "cct_median", "cct_std"} \subseteq DOMAIN Summary
        /\ Len(OkDistances) = Summary.n_valid_triggers
        /\ Summary.cct_mean = MeanOf(OkDistances)
        /\ Summary.cct_median = MedianOf(OkDistances)
        /\ Summary.cct_std >= 0
        /\ Summary.cct_std * Summary.cct_std <= VarianceOf(OkDistances)
        /\ VarianceOf(OkDistances) < (Summary.cct_std + 1) * (Summary.cct_std + 1)
        /\ Len(OkDistances) = 1 => Summary.cct_std = 0
        /\ params.aggregate_method = "median" => Summary.participant_score = Summary.cct_median
        /\ params.aggregate_method = "mean" => Summary.participant_score = Summary.cct_mean

\* an analysis by median of three ok groups whose median and mean differ
MedianDiffersFromMean ==
    /\ Analysed
    /\ Summary.status = "ok"
    /\ params.aggregate_method = "median"
    /\ Summary.n_valid_triggers = 3
    /\ Summary.cct_median # Summary.cct_mean
    /\ Summary.cct_std > 0

\* C15: in an ok summary none_pct is 100 times the number of
\* no_color_present groups over the number of all trigger groups,
\* incomplete ones included, and that number is never zero
NonePctOverAllGroups ==
    (Analysed /\ Summary.status = "ok") =>
        /\ Cardinality(GroupKeys) > 0
        /\ Cardinality(GroupKeys) =
              Cardinality(OkGroups) + Cardinality(NoColorGroups) + Cardinality(IncompleteGroups)
        /\ Summary.none_pct = (Cardinality(NoColorGroups) * 100 * 100) \div Cardinality(GroupKeys)

\* an ok summary over an ok group, a no-color group and an incomplete group
ThreeKindsOfGroups ==
    /\ Analysed
    /\ Summary.status = "ok"
    /\ Cardinality(OkGroups) = 1
    /\ Cardinality(NoColorGroups) = 1
    /\ Cardinality(IncompleteGroups) = 1
    /\ Summary.none_pct = 3333

\* hexstr without one leading "#"
WithoutHash(cs) == IF Len(cs) > 0 /\ cs[1] = "#" THEN Tail(cs) ELSE cs

\* exactly three or exactly six hexadecimal digits
HexDigitsOnly(cs) == Len(cs) \in {3, 6} /\ \A i \in 1..Len(cs) : IsHexDigit(cs[i])

\* the channel written by the hex digits a and b
ChannelOf(a, b) == 16 * HexDigitValue(a) + HexDigitValue(b)

\* the color a well-formed hex string stands for
DecodedHex(cs) ==
    IF Len(cs) = 3
    THEN <<ChannelOf(cs[1], cs[1]), ChannelOf(cs[2], cs[2]), ChannelOf(cs[3], cs[3])>>
    ELSE <<ChannelOf(cs[1], cs[2]), ChannelOf(cs[3], cs[4]), ChannelOf(cs[5], cs[6])>>

\* C17: hex_to_rgb returns a triple of channels in 0..255 exactly when its
\* input, without a leading "#", is three or six hexadecimal digits, a
\* three-digit value doubled digit by digit; for every other input it
\* returns None
HexDecodedIffWellFormed ==
    Done =>
        IF IsStr(params.hexstr) /\ HexDigitsOnly(WithoutHash(params.hexstr[2]))
        THEN /\ result = DecodedHex(WithoutHash(params.hexstr[2]))
             /\ \A c \in 1..3 : result[c] \in 0..255
        ELSE result = None

\* the accepted metadata keys, in their priority order
HexKeys == <<"selected_hex", "color_hex", "hex", "selectedColorHex">>
ObjectKeys == <<"selected_color", "selectedColor", "color">>

\* the color of the object sc, when sc is a map whose three channels resolve
ObjectColor(sc) == IF IsDict(sc) THEN FromObject(sc) ELSE None

\* the colors the values under keys stand for, in order, None where the
\* value is absent or yields no color
ColorsUnder(meta, keys, ColorOf(_)) ==
    [i \in 1..Len(keys) |-> IF Truthy(DictGet(meta, keys[i])) THEN ColorOf(DictGet(meta, keys[i])) ELSE None]

\* the first color of cs, or None
FirstOf(cs) ==
    IF \A i \in 1..Len(cs) : cs[i] = None THEN None
    ELSE cs[CHOOSE i \in 1..Len(cs) : cs[i] # None /\ \A j \in 1..(i - 1) : cs[j] = None]

\* the color by the first strategy that succeeds: direct channels, a
\* well-formed hex under any hex key, a complete object under any object key
FirstSuccessful(t) ==
    IF HasDirectChannels(t) THEN <<t.selected_r[2], t.selected_g[2], t.selected_b[2]>>
    ELSE FirstColor(FirstOf(ColorsUnder(t.meta_json, HexKeys, hex_to_rgb)),
                    FirstOf(ColorsUnder(t.meta_json, ObjectKeys, ObjectColor)))

\* C16: trial_rgb_or_none returns the color of the first strategy that
\* succeeds, direct channels, then a well-formed hex under any accepted hex
\* key, then a complete color object under any accepted object key; a
\* malformed hex or a partial object under one key falls through, and
\* no-color is returned only when no strategy yields a color
FirstStrategyThatSucceeds ==
    Done => result = FirstSuccessful(trials[1])

\* the case variants of the accepted hex keys that payloads carry
CaseVariantHexKeys == {"SELECTED_HEX", "Hex"}

\* C18: a trial without direct channels whose metadata holds a well-formed
\* hex string under a case variant of an accepted hex key, and nothing else,
\* resolves to that color
HexKeyCaseInsensitive ==
    \A k \in CaseVariantHexKeys :
        (Done /\ ~HasDirectChannels(trials[1]) /\ DOMAIN trials[1].meta_json[2] = {k})
            => (result # None /\ result = hex_to_rgb(trials[1].meta_json[2][k]))

\* C19: however malformed the fields of the trials, color extraction does
\* not raise, and the analysis ends in one of the named statuses: no_trials,
\* insufficient_data or ok
EndsInNamedStatus ==
    Done =>
        \/ result = [error |-> "no_trials"]
        \/ /\ "participant" \in DOMAIN result
           /\ result.participant.status \in {"insufficient_data", "ok"}

\* lists of up to five points, all black
PointLists == {[i \in 1..n |-> <<0, 0, 0>>] : n \in 0..5}

\* the exception mean_pairwise_distance raises
MetricError == [exception |-> "ValueError", raised_by |-> "mean_pairwise_distance"]

\* one point per trial, as the loop of lines 238-241 collects them; only
\* their number matters here
PointsOf(trs_sorted) == [i \in 1..Len(trs_sorted) |-> trial_rgb_or_none(trs_sorted[i])]

\* three considered trials, and three points when all of them have a color
ThreePoints(trs_sorted) ==
    /\ Len(trs_sorted) = 3
    /\ (\A i \in 1..3 : ~LacksColor(trs_sorted[i])) => Len(PointsOf(trs_sorted)) = 3

\* C20: mean_pairwise_distance raises ValueError for other than three
\* points, and no analysis ends with that error: every group of three or
\* more trials hands exactly three considered trials on, and the metric is
\* invoked with exactly three points, one per considered trial of a group
\* whose three considered trials all have a color
MetricErrorUnreachable ==
    /\ \A ps \in PointLists : (mean_pairwise_distance(ps) = Err) <=> (Len(ps) # 3)
    /\ Done => result # MetricError
    /\ Analysed =>
          \A k \in GroupKeys :
              Len(Members(k)) >= 3 => ThreePoints(Considered(Members(k)))

\* an analysis of a group of four trials with colors, which is ok
FourColoredTrialsScored ==
    /\ Analysed
    /\ \E k \in GroupKeys :
          /\ Len(Members(k)) = 4
          /\ \A i \in 1..4 : ~LacksColor(Members(k)[i])
          /\ Summary.status = "ok"
          /\ Summary.n_valid_triggers = 1

\* the call of luv_distance has returned
DistanceDone == Done /\ "luv_distance" \in DOMAIN result

\* the call of mean_pairwise_distance on three points has returned
MetricDone == Done /\ "mean_pairwise_distance" \in DOMAIN result /\ Len(params.points) = 3

\* C21: luv_distance(a, b) equals luv_distance(b, a) and luv_distance(a, a)
\* is 0; the mean pairwise distance of three identical points is 0 and the
\* mean distance is never negative
DistanceSymmetricAndZero ==
    /\ DistanceDone =>
          /\ result.luv_distance = luv_distance(params.points[2], params.points[1])
          /\ luv_distance(params.points[1], params.points[1]) = 0
          /\ params.points[1] = params.points[2] => result.luv_distance = 0
          /\ result.luv_distance >= 0
    /\ MetricDone =>
          /\ result.mean_pairwise_distance # Err
          /\ result.mean_pairwise_distance[1] >= 0
          /\ (params.points[1] = params.points[2] /\ params.points[2] = params.points[3])
                => result.mean_pairwise_distance[1] = 0

\* a positive distance between two different points, the second off the v* axis
DistinctPointsApart ==
    /\ DistanceDone
    /\ params.points[1] # params.points[2]
    /\ params.points[2][3] # 0
    /\ result.luv_distance > 0

\* the call of xyz_to_luv has returned, and X + 15Y + 3Z was zero
ZeroDenominator ==
    /\ Done
    /\ "xyz" \in DOMAIN params
    /\ params.xyz[1] + 15 * params.xyz[2] + 3 * params.xyz[3] = 0

\* u' and v' of the reference white
WhiteUPrime == (4 * D65[1] * FP) \div (D65[1] + 15 * D65[2] + 3 * D65[3])
WhiteVPrime == (9 * D65[2] * FP) \div (D65[1] + 15 * D65[2] + 3 * D65[3])

\* C22: when X + 15Y + 3Z is zero u' and v' are 0, so that u* and v* are
\* 13 L* times the negated primes of the white point and nothing is divided
\* by zero; xyz_to_luv(0, 0, 0) and rgb255_to_luv((0, 0, 0)) are (0, 0, 0)
ZeroPointIsNoError ==
    /\ ZeroDenominator =>
          /\ result[2] = (13 * result[1] * (0 - WhiteUPrime)) \div FP
          /\ result[3] = (13 * result[1] * (0 - WhiteVPrime)) \div FP
          /\ params.xyz = <<0, 0, 0>> => result = <<0, 0, 0>>
    /\ (Done /\ "rgb" \in DOMAIN params /\ params.rgb = <<0, 0, 0>>) => result = <<0, 0, 0>>

\* black has been transformed
BlackTransformed ==
    /\ Done
    /\ "rgb" \in DOMAIN params
    /\ params.rgb = <<0, 0, 0>>
    /\ result = <<0, 0, 0>>

\* a zero denominator away from black
ZeroDenominatorAwayFromBlack == ZeroDenominator /\ params.xyz[1] < 0 /\ result[1] > 0

\* rep is the mean of the channel c of rgbs rounded to the nearest integer
RoundedMean(rep, rgbs, c) ==
    LET total == rgbs[1][c] + rgbs[2][c] + rgbs[3][c]
    IN /\ 3 * rep - total \in -1..1
       /\ \E i \in 1..3 : rgbs[i][c] <= rep
       /\ \E i \in 1..3 : rep <= rgbs[i][c]

\* hex is "#" and two hexadecimal digits for each channel of rgb
TwoDigitsPerChannel(hex, rgb) ==
    /\ Len(hex) = 7
    /\ hex[1] = "#"
    /\ \A i \in 2..7 : IsHexDigit(hex[i])
    /\ \A c \in 1..3 : ChannelOf(hex[2 * c], hex[2 * c + 1]) = rgb[c]

\* the entry e is that of an ok group with the colors rgbs
RepresentativeOf(e, rgbs) ==
    /\ \A c \in 1..3 : RoundedMean(e.representative_rgb[c], rgbs, c)
    /\ TwoDigitsPerChannel(e.representative_hex, e.representative_rgb)
    /\ e.mean_d = mean_pairwise_distance([i \in 1..3 |-> rgb255_to_luv(rgbs[i])])[1]

\* C23: for every ok group each channel of representative_rgb is the mean
\* of that channel over the three considered trials rounded to the nearest
\* integer, between their minimum and maximum; representative_hex is its
\* encoding in two hex digits per channel; mean_d is the metric of the three
\* colors alone
RepresentativeIsRoundedMean ==
    Analysed =>
        \A k \in OkGroups :
            /\ EntryOf(k).status = "ok"
            /\ RepresentativeOf(EntryOf(k), PointsOf(Considered(Members(k))))

\* the request has been answered
Answered == pc = "answered"

\* the analysis has returned the no-trials outcome
ReturnsNoTrials == result = [error |-> "no_trials"]

\* a row is added to the session or committed in the step
RowWritten == Len(db'.session) > Len(db.session) \/ db'.committed # db.committed

\* C24: every add or commit of a result row happens after
\* analyze_participant_logic has returned, no step after the analysis
\* changes the result, the answer carries that result, and nothing is
\* written when the result is the no-trials outcome
PersistenceFollowsAnalysis ==
    [][ /\ RowWritten =>
             /\ pc \in {"persist", "commit_td", "query", "commit_atd"}
             /\ result # Pending
             /\ "error" \notin DOMAIN result
        /\ (result # Pending) => (result' = result)
        /\ (pc' = "answered" /\ response'.status = 200) => response'.body = result
        /\ ReturnsNoTrials' => (db'.session = <<>> /\ db'.committed = <<>>)
      ]_vars

\* a request answered with an ok result after both rows were committed
BothRowsCommitted ==
    /\ Answered
    /\ response.status = 200
    /\ "participant" \in DOMAIN response.body
    /\ response.body.participant.status = "ok"
    /\ Len(db.committed) = 2

\* the committed rows of a table
RowsOf(table) == SelectSeq(db.committed, LAMBDA row : row.table = table)

\* C26: a persisted TestData row carries the total number of trigger groups
\* of the analysed trials as cct_triggers, the summary's n_valid_triggers as
\* cct_valid and 100 times the no-color groups over all groups as
\* cct_none_pct, for the ok and for the insufficient_data outcome
PersistedCountsMatch ==
    \A i \in 1..Len(RowsOf("TestData")) :
        /\ RowsOf("TestData")[i].cct_triggers = Cardinality(GroupKeys)
        /\ RowsOf("TestData")[i].cct_valid = Summary.n_valid_triggers
        /\ RowsOf("TestData")[i].cct_none_pct =
              (Cardinality(NoColorGroups) * 100 * 100) \div Cardinality(GroupKeys)

\* the rows of the participant whose metadata test_type is the label
RowsLabelled(label) == SelectSeq(OrderedRows(trials), LAMBDA t : TestTypeOf(t) = label)

\* C27: a /run request that carries a test_type analyses only the
\* participant's trials with that test_type in their metadata, and a
\* request without one analyses all of the participant's trials
RunFiltersByTestType ==
    (Answered /\ response.status = 200) =>
        response.body =
            analyze_participant_logic(
                IF Truthy(params.data.test_type) THEN RowsLabelled(params.data.test_type)
                ELSE OrderedRows(trials),
                params.min_triggers, params.cutoff, params.aggregate_method)

\* the request has been answered with an ok analysis
AnsweredOk ==
    /\ Answered
    /\ response.status = 200
    /\ "participant" \in DOMAIN response.body
    /\ response.body.participant.status = "ok"

\* C28: for an ok analysis exactly one TestData row is persisted, with
\* cct_pass true exactly when the diagnosis is "synesthete"; an
\* AnalyzedTestData row with that diagnosis is persisted exactly when a
\* Participant row exists, and without one the analysis still returns its result
OkAnalysisPersisted ==
    AnsweredOk =>
        /\ Len(RowsOf("TestData")) = 1
        /\ RowsOf("TestData")[1].cct_pass = (Summary.diagnosis = "synesthete")
        /\ Len(RowsOf("AnalyzedTestData")) = (IF db.participant THEN 1 ELSE 0)
        /\ \A i \in 1..Len(RowsOf("AnalyzedTestData")) :
              RowsOf("AnalyzedTestData")[i].diagnosis = (Summary.diagnosis = "synesthete")
        /\ response.body = result
        /\ db.session = <<>>

\* an ok analysis of a non-synesthete without a Participant row
NonSynestheteWithoutParticipant ==
    /\ AnsweredOk
    /\ ~db.participant
    /\ Summary.diagnosis = "non_synesthete"
    /\ Len(db.committed) = 1

\* C29: whenever the request is answered 500 after a step of
\* analyze_participant raised, no TestData or AnalyzedTestData row written by
\* the request remains committed
FailureLeavesNothingCommitted ==
    (Answered /\ response.status = 500) => db.committed = <<>>

\* C30: for every non-empty trial list each trigger group has exactly one of
\* the statuses ok, no_color_present and incomplete, and n_valid_triggers +
\* n_no_color_triggers + the number of groups of fewer than three trials is
\* the number of trigger groups; hence an ok summary has n_valid_triggers >= 1
\* and 0 <= none_pct < 100
GroupCountsAddUp ==
    Analysed =>
        /\ \A k \in GroupKeys :
              EntryOf(k).status \in {"ok", "no_color_present", "incomplete"}
        /\ Summary.n_valid_triggers + Summary.n_no_color_triggers
              + Cardinality(IncompleteGroups) = Cardinality(GroupKeys)
        /\ Summary.status = "ok" =>
              /\ Summary.n_valid_triggers >= 1
              /\ Summary.none_pct >= 0
              /\ Summary.none_pct < 100 * 100

\* an ok summary that counts one group of each status out of three
OneGroupOfEachStatus ==
    /\ Analysed
    /\ Summary.status = "ok"
    /\ Summary.n_valid_triggers = 1
    /\ Summary.n_no_color_triggers = 1
    /\ Cardinality(GroupKeys) = 3
    /\ Summary.none_pct > 0

\* C25: two invocations of analyze_participant_logic that run interleaved do
\* not interfere: each returns what it returns when run alone on its trial
\* list, the trial list it was given and the stored trials stay as they were,
\* and the database session is never used
InvocationsDoNotInterfere ==
    /\ \A i \in Invocations :
          /\ params[i].trials = SubSeq(trials, 1, Len(params[i].trials))
          /\ pc[i] = "done" =>
                result[i] = analyze_participant_logic(params[i].trials, params[i].min_triggers,
                                                      params[i].cutoff,
                                                      params[i].aggregate_method)
    /\ db = EmptyDb

\* both invocations have returned, one an ok summary of three trials and the
\* other a summary of fewer trials of the same list
BothInvocationsReturned ==
    /\ \A i \in Invocations : pc[i] = "done"
    /\ Len(params[1].trials) = 3
    /\ Len(params[2].trials) = 2
    /\ result[1].participant.status = "ok"
    /\ result[2].participant.status = "insufficient_data"

====
